---- MODULE Spec2Model ----
(***************************************************************************)
(* Model of the recipes quiz bot (src/main.py).                            *)
(*                                                                         *)
(* The bot runs on one asyncio event loop.  aiogram's polling starts one   *)
(* task per inbound update; a task keeps the loop until it awaits real     *)
(* I/O (a Telegram send, the OpenAI call), and only then can another task  *)
(* run.  The FSM storage is the in-memory MemoryStorage (main.py:232): its *)
(* coroutines never suspend, so `await state.update_data(...)`,            *)
(* `await state.set_state(...)`, `await state.get_data()` and              *)
(* `await state.clear()` give no other task a turn.  An action of the      *)
(* model is therefore the code a task runs from one suspension to the      *)
(* next; the position `pc` of a task names the I/O it is suspended on.     *)
(*                                                                         *)
(* Strings that the code only passes around (names, recipes, urls, user    *)
(* text) are TLA+ strings; texts the code edits (backend content, which is *)
(* stripped) are sequences of tokens, a token being one whitespace         *)
(* character or one word.  Fixed Russian texts are written in ASCII.       *)
(***************************************************************************)
EXTENDS Integers, Sequences, FiniteSets, TLC

VARIABLES
    proc,           \* position of the process: "import", "imported", "polling", "failed"
    env,            \* what the process finds at start: recipes.json and the two credentials
    RECIPES,        \* main.py:27  the loaded catalog (a sequence of dicts)
    openai_client,  \* main.py:50  None until main() sets it
    fsmState,       \* MemoryStorage: per user, the FSM state (None or waiting_for_answer)
    fsmData,        \* MemoryStorage: per user, the data dict
    tasks           \* per user, one entry per inbound update, in arrival order

vars == <<proc, env, RECIPES, openai_client, fsmState, fsmData, tasks>>

----------------------------------------------------------------------------
(* Bounds *)

MaxEvents == 3

Users == {"u1", "u2"}

----------------------------------------------------------------------------
(* Python values *)

None == "<None>"

\* None where a text (a sequence of tokens) is expected
NoneText == <<None>>

EmptyDict == [k \in {} |-> None]

\* dict.get(key, default)
DictGet(d, k, default) == IF k \in DOMAIN d THEN d[k] ELSE default

\* truthiness of an optional string: None and "" are falsy
Truthy(s) == s /= None /\ s /= ""

\* `a or b` on optional strings
Or(a, b) == IF Truthy(a) THEN a ELSE b

----------------------------------------------------------------------------
(* Fixed texts of main.py *)

TRY_NEXT_BUTTON_TEXT == "Novoe blyudo"             \* main.py:37
START_COMMAND        == "/start"                   \* matched by CommandStart()
MAIN_KEYBOARD        == <<<<TRY_NEXT_BUTTON_TEXT>>>>    \* main.py:39-43  one row, one button
waiting_for_answer   == "QuizStates:waiting_for_answer"

GREETING    == <<"Nazhimay knopku snizu, chtoby nachat test.">>                 \* main.py:63
CHECKING    == <<"Proveryayu otvet...">>                                        \* main.py:141
FALLBACK    == <<"V etot raz ya ne smogl nayti ofitsialnyy retsept, ",
                 "no vy mozhete poprobovat drugoe blyudo.">>                    \* main.py:160
UNAVAILABLE == <<"Evaluation service is temporarily unavailable. ",
                 "Please try another dish later.">>                             \* main.py:100
APOLOGY     == <<"Ne udalos poluchit otsenku ot modeli.", "\n",
                 "Poprobuy, pozhaluysta, drugoe blyudo chut pozzhe.">>          \* main.py:129
NO_RECIPE   == "Opisanie retsepta otsutstvuet."        \* main.py:166
NO_NAME     == "Neizvestnoe blyudo"                   \* main.py:176
NO_PRICE    == "Neizvestnaya tsena"                   \* main.py:179
NO_WEIGHT   == "Neizvestnyy ves"                      \* main.py:180

DishPrompt(name) == <<"Blyudo: ", name, "\n\nPozhaluysta, napishi ego retsept.">>

----------------------------------------------------------------------------
(* What the process can find at start *)

DishA1 == [name |-> "Borscht", recipe |-> "beets, cabbage, potato",
           price |-> "550.0", weight |-> "300g", image_url |-> "http://img/a"]
DishA2 == [name |-> "Borscht", recipe |-> "beets only", image_url |-> None]
DishB  == [name |-> "Syrniki", recipe |-> "", price |-> "210.0",
           weight |-> None, image_url |-> None]
\* a record as parse.py writes it when the scraped item has no name
DishNameless == [name |-> None, recipe |-> "water", image_url |-> None]

RecipeFiles ==
    { [kind |-> "missing"],                                    \* open() raises
      [kind |-> "object"],                                     \* valid JSON, not a list
      [kind |-> "list", items |-> <<>>],
      [kind |-> "list", items |-> <<DishA1, DishB>>],
      [kind |-> "list", items |-> <<DishA2, DishA1>>],
      [kind |-> "list", items |-> <<DishNameless, DishB>>] }

Credentials == {None, "secret"}

Environments ==
    [recipes_json : RecipeFiles,
     TELEGRAM_BOT_TOKEN : Credentials,
     OPENAI_API_KEY : Credentials]

\* message.text of an inbound message
MessageTexts == {START_COMMAND, TRY_NEXT_BUTTON_TEXT, "beets and potato"}

----------------------------------------------------------------------------
(* The backend *)

Whitespace == {" ", "\n"}

Contents == { NoneText, <<>>, <<" ">>, <<"Close match. 8/10">>,
              <<"\n", "Close match. 8/10", " ">> }

\* what `await openai_client.chat.completions.create(...)` can produce
Responses ==
    { [kind |-> "raise"] }                                     \* timeout, transport or API error
    \cup { [kind |-> "response", choices |-> <<>>] }           \* a response with no choices
    \cup { [kind |-> "response", choices |-> <<[content |-> c]>>] : c \in Contents }

RECURSIVE LStrip(_)
LStrip(s) == IF s /= <<>> /\ Head(s) \in Whitespace THEN LStrip(Tail(s)) ELSE s

RECURSIVE RStrip(_)
RStrip(s) ==
    IF s /= <<>> /\ s[Len(s)] \in Whitespace THEN RStrip(SubSeq(s, 1, Len(s) - 1)) ELSE s

\* str.strip()
Strip(s) == RStrip(LStrip(s))

\* mutant: an empty content is replaced by the apology
ContentOf_ApologyWhenEmpty(response) ==
    LET c == response.choices[1].content
        text == Strip(IF c = NoneText \/ c = <<>> THEN <<>> ELSE c)
    IN  IF text = <<>> THEN APOLOGY ELSE text

\* main.py:131  (response.choices[0].message.content or "").strip()
ContentOf(response) ==
    LET c == response.choices[1].content
    IN  Strip(IF c = NoneText \/ c = <<>> THEN <<>> ELSE c)

----------------------------------------------------------------------------
(* Catalog lookups *)

\* mutant: the last record with the name is taken
FindByName_Last(dish_name) ==
    LET hits == {i \in 1..Len(RECIPES) : DictGet(RECIPES[i], "name", None) = dish_name}
    IN  IF hits = {} THEN 0 ELSE CHOOSE i \in hits : \A j \in hits : i >= j

\* main.py:150  next((d for d in RECIPES if d.get("name") == dish_name), None)
FindByName(dish_name) ==
    LET hits == {i \in 1..Len(RECIPES) : DictGet(RECIPES[i], "name", None) = dish_name}
    IN  IF hits = {} THEN 0 ELSE CHOOSE i \in hits : \A j \in hits : i <= j

\* main.py:148-150  the dish handle_answer works with (0 stands for None)
ResolveDish(dish_name) == IF Truthy(dish_name) THEN FindByName(dish_name) ELSE 0

\* main.py:108-125  the request evaluate_answer_with_model sends
EvaluationRequest(dish_name, official_recipe, user_recipe, price, weight) ==
    [model |-> "gpt-5-mini",
     dish_name |-> dish_name, official_recipe |-> official_recipe,
     user_recipe |-> user_recipe, price |-> price, weight |-> weight]

\* main.py:166-181  the arguments handle_answer passes for dish i and message text
RequestFor(i, text) ==
    LET dish == RECIPES[i]
    IN  EvaluationRequest(DictGet(dish, "name", NO_NAME),
                          Or(DictGet(dish, "recipe", None), NO_RECIPE),
                          Or(text, ""),
                          DictGet(dish, "price", NO_PRICE),
                          DictGet(dish, "weight", NO_WEIGHT))

----------------------------------------------------------------------------
(* Outgoing messages *)

\* message.answer(text, reply_markup=MAIN_KEYBOARD)
TextMessage(text) ==
    [method |-> "answer", text |-> text, photo |-> None, parse_mode |-> None,
     reply_markup |-> MAIN_KEYBOARD]

\* message.answer_photo(photo=..., caption=..., reply_markup=MAIN_KEYBOARD,
\*                      parse_mode=ParseMode.MARKDOWN)
PhotoMessage(photo, caption) ==
    [method |-> "answer_photo", text |-> caption, photo |-> photo,
     parse_mode |-> "Markdown", reply_markup |-> MAIN_KEYBOARD]

----------------------------------------------------------------------------
(* Tasks *)

TaskSlots == Users \X (1..MaxEvents)

\* a task is named by its user and its position among that user's updates
Exists(t) == t[2] <= Len(tasks[t[1]])

\* the tasks that exist
TaskIds == {t \in TaskSlots : Exists(t)}

\* the number of updates that have arrived
RECURSIVE Count(_)
Count(S) == IF S = {} THEN 0
            ELSE LET u == CHOOSE v \in S : TRUE IN Len(tasks[u]) + Count(S \ {u})

NumEvents == Count(Users)

T(t) == tasks[t[1]][t[2]]

\* the task of a new update of user u, suspended at pc (or "done")
NewTask(u, text, handler, pc) ==
    [text |-> text, handler |-> handler, pc |-> pc,
     raw_state |-> fsmState[u],      \* the FSM state the filters saw
     raw_dish |-> DictGet(fsmData[u], "current_dish_name", None),
     dish |-> 0,                     \* handle_try_next / handle_answer: `dish` (index, 0 = None)
     dish_name |-> None,             \* handle_answer: `dish_name`
     evaluation |-> <<>>,            \* handle_answer: `evaluation`
     sent |-> <<>>,                  \* messages this task has sent
     requests |-> <<>>,              \* backend requests this task has issued
     outcome |-> "none",             \* how the backend call ended: "raise", "malformed", "ok"
     cleared |-> FALSE,              \* this task has run state.clear()
     \* another user's backend call was outstanding when this update arrived
     during_call |-> \E v \in Users \ {u} : \E i \in 1..Len(tasks[v]) :
                        tasks[v][i].pc = "ev_create"]

Upd(t, task) == [tasks EXCEPT ![t[1]][t[2]] = task]

Finished(t) == T(t).pc \in {"done", "raised"}

----------------------------------------------------------------------------
(* Start of the process *)

Init ==
    /\ proc = "import"
    /\ env \in Environments
    /\ RECIPES = <<>>
    /\ openai_client = None
    /\ fsmState = [u \in Users |-> None]
    /\ fsmData = [u \in Users |-> EmptyDict]
    /\ tasks = [u \in Users |-> <<>>]

\* main.py:26-30  module import: load recipes.json, require a non-empty list
LoadRecipes ==
    /\ proc = "import"
    /\ LET f == env.recipes_json
       IN  IF f.kind = "list" /\ f.items /= <<>>
           THEN proc' = "imported" /\ RECIPES' = f.items
           ELSE proc' = "failed" /\ UNCHANGED RECIPES
    /\ UNCHANGED <<env, openai_client, fsmState, fsmData, tasks>>

\* mutant: main() does not check OPENAI_API_KEY
Main_NoKeyCheck ==
    /\ proc = "imported"
    /\ IF Truthy(env.TELEGRAM_BOT_TOKEN)
       THEN proc' = "polling" /\ openai_client' = "AsyncOpenAI"
       ELSE proc' = "failed" /\ UNCHANGED openai_client
    /\ UNCHANGED <<env, RECIPES, fsmState, fsmData, tasks>>

\* main.py:208-242  main(): check the credentials, create the client, start polling
Main ==
    /\ proc = "imported"
    /\ IF Truthy(env.TELEGRAM_BOT_TOKEN) /\ Truthy(env.OPENAI_API_KEY)
       THEN proc' = "polling" /\ openai_client' = "AsyncOpenAI"
       ELSE proc' = "failed" /\ UNCHANGED openai_client
    /\ UNCHANGED <<env, RECIPES, fsmState, fsmData, tasks>>

----------------------------------------------------------------------------
(* FSM storage (aiogram MemoryStorage through FSMContext) *)

\* state.update_data(current_dish_name=v): the data dict of u afterwards
UpdateData(u, v) ==
    [fsmData EXCEPT ![u] =
        [k \in DOMAIN @ \cup {"current_dish_name"} |->
            IF k = "current_dish_name" THEN v ELSE @[k]]]

\* state.set_state(s)
SetState(u, s) == [fsmState EXCEPT ![u] = s]

\* mutant: state.clear() empties the storage of every user
Clear_Everyone(u) ==
    /\ fsmState' = [v \in Users |-> None]
    /\ fsmData' = [v \in Users |-> EmptyDict]

\* state.clear(): set_state(None), then set_data({})
Clear(u) ==
    /\ fsmState' = SetState(u, None)
    /\ fsmData' = [fsmData EXCEPT ![u] = EmptyDict]

----------------------------------------------------------------------------
(* Polling and routing *)

\* mutant: updates handled one after the other (start_polling(handle_as_tasks=False))
CanTake_Sequential(u) ==
    /\ proc = "polling"
    /\ NumEvents < MaxEvents
    /\ \A t \in TaskIds : Finished(t)

\* main.py:242  dp.start_polling(bot): while polling, an update of user u is taken as
\* it arrives and handled in a task of its own
CanTake(u) ==
    /\ proc = "polling"
    /\ NumEvents < MaxEvents
    /\ u \in Users

\* mutant: handle_answer registered without its state filter
Route_NoStateFilter(u, text) ==
    IF text = START_COMMAND THEN "start_handler"
    ELSE IF text = TRY_NEXT_BUTTON_TEXT THEN "handle_try_next"
    ELSE "handle_answer"

\* main.py:236-238  the first registered handler whose filter passes
Route(u, text) ==
    IF text = START_COMMAND THEN "start_handler"
    ELSE IF text = TRY_NEXT_BUTTON_TEXT THEN "handle_try_next"
    ELSE IF fsmState[u] = waiting_for_answer THEN "handle_answer"
    ELSE "unhandled"

\* the update's task is added, already advanced to `task`
Started(u, task) == tasks' = [tasks EXCEPT ![u] = Append(@, task)]

\* task t calls a Telegram send and suspends on it at pc
Sending(task, msg, pc) == [task EXCEPT !.sent = Append(@, msg), !.pc = pc]

\* an update no handler accepts is dropped
Unhandled(u, text) ==
    /\ CanTake(u)
    /\ Route(u, text) = "unhandled"
    /\ Started(u, NewTask(u, text, "unhandled", "done"))
    /\ UNCHANGED <<proc, env, RECIPES, openai_client, fsmState, fsmData>>

----------------------------------------------------------------------------
(* start_handler, main.py:53-65 *)

\* main.py:62-65  await message.answer(greeting)
StartHandler(u, text) ==
    /\ CanTake(u)
    /\ Route(u, text) = "start_handler"
    /\ Started(u, Sending(NewTask(u, text, "start_handler", "st_answer"),
                          TextMessage(GREETING), "st_answer"))
    /\ UNCHANGED <<proc, env, RECIPES, openai_client, fsmState, fsmData>>

\* mutant: start_handler resets the session before it returns
StartReturns_Clears(t) ==
    /\ Exists(t)
    /\ T(t).pc = "st_answer"
    /\ Clear(t[1])
    /\ tasks' = Upd(t, [T(t) EXCEPT !.pc = "done", !.cleared = TRUE])
    /\ UNCHANGED <<proc, env, RECIPES, openai_client>>

\* the greeting is sent and start_handler returns
StartReturns(t) ==
    /\ Exists(t)
    /\ T(t).pc = "st_answer"
    /\ tasks' = Upd(t, [T(t) EXCEPT !.pc = "done"])
    /\ UNCHANGED <<proc, env, RECIPES, openai_client, fsmState, fsmData>>

----------------------------------------------------------------------------
(* handle_try_next, main.py:68-89 *)

\* mutant: the pending dish name is not written
TryNextWrites_NoData(u, i) ==
    /\ fsmState' = SetState(u, waiting_for_answer)
    /\ UNCHANGED fsmData

\* main.py:83-84  update_data(current_dish_name=dish.get("name")), then
\* set_state(waiting_for_answer)
TryNextWrites(u, i) ==
    /\ fsmData' = UpdateData(u, DictGet(RECIPES[i], "name", None))
    /\ fsmState' = SetState(u, waiting_for_answer)

\* main.py:75-89  pick a dish, store it, await message.answer(dish prompt)
HandleTryNext(u, text) ==
    /\ CanTake(u)
    /\ Route(u, text) = "handle_try_next"
    /\ \E i \in 1..Len(RECIPES) :             \* main.py:75  random.choice(RECIPES)
          /\ TryNextWrites(u, i)
          /\ Started(u, Sending([NewTask(u, text, "handle_try_next", "tn_answer")
                                     EXCEPT !.dish = i],
                                TextMessage(DishPrompt(DictGet(RECIPES[i], "name", None))),
                                "tn_answer"))
    /\ UNCHANGED <<proc, env, RECIPES, openai_client>>

\* the prompt is sent and handle_try_next returns
TryNextReturns(t) ==
    /\ Exists(t)
    /\ T(t).pc = "tn_answer"
    /\ tasks' = Upd(t, [T(t) EXCEPT !.pc = "done"])
    /\ UNCHANGED <<proc, env, RECIPES, openai_client, fsmState, fsmData>>

----------------------------------------------------------------------------
(* handle_answer, main.py:136-205 *)

\* main.py:140-143  await message.answer("checking...")
HandleAnswer(u, text) ==
    /\ CanTake(u)
    /\ Route(u, text) = "handle_answer"
    /\ Started(u, Sending(NewTask(u, text, "handle_answer", "ha_checking"),
                          TextMessage(CHECKING), "ha_checking"))
    /\ UNCHANGED <<proc, env, RECIPES, openai_client, fsmState, fsmData>>

\* main.py:145-150  what handle_answer reads once the acknowledgement is sent
Looked(t) ==
    LET dish_name == DictGet(fsmData[t[1]], "current_dish_name", None)
    IN  [T(t) EXCEPT !.dish_name = dish_name, !.dish = ResolveDish(dish_name)]

\* main.py:145-162  no dish: await message.answer(fallback)
AnswerFallback(t) ==
    /\ Exists(t)
    /\ T(t).pc = "ha_checking"
    /\ Looked(t).dish = 0
    /\ tasks' = Upd(t, Sending(Looked(t), TextMessage(FALLBACK), "ha_fallback"))
    /\ UNCHANGED <<proc, env, RECIPES, openai_client, fsmState, fsmData>>

\* mutant: the fallback path returns without state.clear()
AnswerFallbackClear_Missing(t) ==
    /\ Exists(t)
    /\ T(t).pc = "ha_fallback"
    /\ tasks' = Upd(t, [T(t) EXCEPT !.pc = "done"])
    /\ UNCHANGED <<proc, env, RECIPES, openai_client, fsmState, fsmData>>

\* main.py:163-164  the fallback is sent: await state.clear(); return
AnswerFallbackClear(t) ==
    /\ Exists(t)
    /\ T(t).pc = "ha_fallback"
    /\ Clear(t[1])
    /\ tasks' = Upd(t, [T(t) EXCEPT !.pc = "done", !.cleared = TRUE])
    /\ UNCHANGED <<proc, env, RECIPES, openai_client>>

\* main.py:98-126  evaluate_answer_with_model up to its await: without a client it
\* returns at once, otherwise it sends the one request
Evaluating(task) ==
    IF openai_client = None
    THEN [task EXCEPT !.evaluation = UNAVAILABLE, !.pc = "ha_result"]
    ELSE [task EXCEPT !.requests = Append(@, RequestFor(task.dish, task.text)),
                      !.pc = "ev_create"]

\* mutant: the image branch is lost
ResultMessage_TextOnly(i, evaluation) == TextMessage(evaluation)

\* main.py:183-201  the message that carries the evaluation
ResultMessage(i, evaluation) ==
    LET image_url == DictGet(RECIPES[i], "image_url", None)
    IN  IF Truthy(image_url) THEN PhotoMessage(image_url, evaluation)
                             ELSE TextMessage(evaluation)

\* main.py:183-201  evaluate_answer_with_model has returned `evaluation`:
\* await message.answer_photo(...) or message.answer(...)
Returned(task, evaluation, outcome) ==
    Sending([task EXCEPT !.evaluation = evaluation, !.outcome = outcome],
            ResultMessage(task.dish, evaluation), "ha_result")

\* main.py:145-181  a dish is found: evaluate_answer_with_model is called
AnswerEvaluate(t) ==
    /\ Exists(t)
    /\ T(t).pc = "ha_checking"
    /\ Looked(t).dish /= 0
    /\ LET task == Evaluating(Looked(t))
       IN  tasks' = Upd(t, IF task.pc = "ha_result"
                           THEN Returned(task, task.evaluation, "none")
                           ELSE task)
    /\ UNCHANGED <<proc, env, RECIPES, openai_client, fsmState, fsmData>>

\* mutant: a failed call is tried again
BackendRaises_Retry(t) ==
    /\ Exists(t)
    /\ T(t).pc = "ev_create"
    /\ tasks' = Upd(t, Evaluating([T(t) EXCEPT !.outcome = "raise"]))
    /\ UNCHANGED <<proc, env, RECIPES, openai_client, fsmState, fsmData>>

\* main.py:127-129  the call raises (timeout, transport or API error): it is logged
\* and the apology is returned
BackendRaises(t) ==
    /\ Exists(t)
    /\ T(t).pc = "ev_create"
    /\ tasks' = Upd(t, Returned(T(t), APOLOGY, "raise"))
    /\ UNCHANGED <<proc, env, RECIPES, openai_client, fsmState, fsmData>>

\* main.py:131-133  the call returns a response
BackendResponds(t, response) ==
    /\ Exists(t)
    /\ T(t).pc = "ev_create"
    /\ response.kind = "response"
    /\ IF response.choices = <<>>
       THEN \* response.choices[0] raises IndexError outside the try block; it leaves
            \* evaluate_answer_with_model and handle_answer, and the dispatcher logs it
            tasks' = Upd(t, [T(t) EXCEPT !.outcome = "malformed", !.pc = "raised"])
       ELSE tasks' = Upd(t, Returned(T(t), ContentOf(response), "ok"))
    /\ UNCHANGED <<proc, env, RECIPES, openai_client, fsmState, fsmData>>

\* main.py:204  the result is sent: await state.clear(), and handle_answer returns
AnswerClear(t) ==
    /\ Exists(t)
    /\ T(t).pc = "ha_result"
    /\ Clear(t[1])
    /\ tasks' = Upd(t, [T(t) EXCEPT !.pc = "done", !.cleared = TRUE])
    /\ UNCHANGED <<proc, env, RECIPES, openai_client>>

----------------------------------------------------------------------------
(* The system *)

Next ==
    \/ LoadRecipes
    \/ Main
    \/ \E u \in Users, text \in MessageTexts :
          \/ Unhandled(u, text)
          \/ StartHandler(u, text)
          \/ HandleTryNext(u, text)
          \/ HandleAnswer(u, text)
    \/ \E t \in TaskSlots :
          \/ StartReturns(t)
          \/ TryNextReturns(t)
          \/ AnswerFallback(t)
          \/ AnswerFallbackClear(t)
          \/ AnswerEvaluate(t)
          \/ BackendRaises(t)
          \/ \E r \in Responses : BackendResponds(t, r)
          \/ AnswerClear(t)

Spec == Init /\ [][Next]_vars

----------------------------------------------------------------------------
(* The session as the specification names it *)

\* the user's phase: AwaitingRecipe is the FSM state waiting_for_answer
Phase(u) == IF fsmState[u] = waiting_for_answer THEN "AwaitingRecipe" ELSE "Idle"

\* the pending dish name, None when there is none (main.py:146)
Pending(u) == DictGet(fsmData[u], "current_dish_name", None)

\* dish.get("name") of catalog record i
DishName(i) == DictGet(RECIPES[i], "name", None)

\* task t after the step
TNext(t) == tasks'[t[1]][t[2]]

\* an update of user u arrives in this step, and its task
Arrives(u) == Len(tasks'[u]) = Len(tasks[u]) + 1
Arrived(u) == tasks'[u][Len(tasks'[u])]

AnswerTasks == {t \in TaskIds : T(t).handler = "handle_answer"}
PressTasks  == {t \in TaskIds : T(t).handler = "handle_try_next"}

\* the task takes its last step: the handler returns or an exception leaves it
Finishes(t) == ~Finished(t) /\ TNext(t).pc \in {"done", "raised"}

----------------------------------------------------------------------------
(* C1 *)

\* the button label is routed to handle_try_next in every phase, and nothing else is
ButtonIsPress ==
    \A t \in TaskIds : (T(t).text = TRY_NEXT_BUTTON_TEXT) <=> (T(t).handler = "handle_try_next")

\* C1 as stated: whenever handle_try_next finishes, the user's phase is AwaitingRecipe
\* and the pending dish is the dish that press picked; the button label is always a press.
C1_PressHoldsWhenFinished ==
    [][ /\ ButtonIsPress'
        /\ \A t \in PressTasks : Finishes(t) =>
              /\ Phase(t[1])' = "AwaitingRecipe"
              /\ Pending(t[1])' = DishName(T(t).dish) ]_vars

\* C1 amended: when the two session writes of a press are done (handle_try_next
\* suspends to send its prompt) the user's phase is AwaitingRecipe and the pending dish
\* is the dish that press picked, whatever the phase and the pending dish were before;
\* the button label is always a press.
C1_PressSetsPending ==
    [][ /\ ButtonIsPress'
        /\ \A u \in Users :
              (Arrives(u) /\ Arrived(u).text = TRY_NEXT_BUTTON_TEXT) =>
                  /\ Arrived(u).handler = "handle_try_next"
                  /\ Arrived(u).dish \in 1..Len(RECIPES)
                  /\ Phase(u)' = "AwaitingRecipe"
                  /\ Pending(u)' = DishName(Arrived(u).dish) ]_vars

\* a press made while another dish was pending has replaced it
C1_Witness ==
    \E t \in PressTasks :
        /\ T(t).raw_state = waiting_for_answer
        /\ Truthy(T(t).raw_dish)
        /\ T(t).raw_dish /= DishName(T(t).dish)
        /\ Pending(t[1]) = DishName(T(t).dish)
        /\ Phase(t[1]) = "AwaitingRecipe"

----------------------------------------------------------------------------
(* C2 *)

\* C2 as stated, in the form a finite run refutes: whenever a handle_answer run ends,
\* whatever the backend did, it leaves the user's phase Idle with no pending dish.
C2_AnswerEndsIdle ==
    [][ \A t \in AnswerTasks : Finishes(t) =>
            /\ Phase(t[1])' = "Idle"
            /\ Pending(t[1])' = None ]_vars

----------------------------------------------------------------------------
(* C3 *)

\* C3 as stated: after any backend failure (the call raised, or the response was
\* malformed) evaluate_answer_with_model has returned the apology and no exception
\* has left it.
C3_FailureGivesApology ==
    \A t \in AnswerTasks : T(t).outcome \in {"raise", "malformed"} =>
        /\ T(t).pc /= "raised"
        /\ T(t).evaluation = APOLOGY

----------------------------------------------------------------------------
(* C4 *)

\* C4 as stated: in every state another handler can observe (every state of the model:
\* the session writes of a press, and those of a clear, happen within one step), the
\* pending dish name is set if and only if the user's phase is AwaitingRecipe.
C4_PendingIffAwaiting ==
    \A u \in Users : (Pending(u) /= None) <=> (Phase(u) = "AwaitingRecipe")

----------------------------------------------------------------------------
(* C5 *)

\* C5: a free-text message that arrives while the user's phase is Idle reaches no
\* handler: the step that takes it changes neither the session nor any other task,
\* and the update never sends a message or calls the backend.
C5_IdleTextIgnored ==
    [][ /\ \A u \in Users :
              ( /\ Arrives(u)
                /\ Arrived(u).text \notin {START_COMMAND, TRY_NEXT_BUTTON_TEXT}
                /\ Phase(u) = "Idle" )
              => /\ Arrived(u).handler = "unhandled"
                 /\ SubSeq(tasks'[u], 1, Len(tasks[u])) = tasks[u]
                 /\ \A v \in Users \ {u} : tasks'[v] = tasks[v]
                 /\ UNCHANGED <<fsmState, fsmData>>
        /\ \A t \in TaskIds : TNext(t).handler = "unhandled" =>
              /\ TNext(t).pc = "done"
              /\ TNext(t).sent = <<>>
              /\ TNext(t).requests = <<>> ]_vars

\* a free text was dropped while the user was Idle
C5_Witness ==
    \E t \in TaskIds :
        /\ T(t).handler = "unhandled"
        /\ T(t).text = "beets and potato"
        /\ T(t).raw_state = None
        /\ T(t).sent = <<>>
        /\ Phase(t[1]) = "Idle"

----------------------------------------------------------------------------
(* C6 *)

\* handle_answer has read the session and found no dish
OnFallbackPath(t) ==
    /\ T(t).handler = "handle_answer"
    /\ T(t).pc /= "ha_checking"
    /\ ResolveDish(T(t).dish_name) = 0

\* C6: a handle_answer run whose pending dish name is absent or matches no catalog
\* record sends the fallback message after the acknowledgement, never calls the
\* backend, and ends with the user's phase Idle and no pending dish.
C6_FallbackPath ==
    [][ \A t \in AnswerTasks :
          /\ OnFallbackPath(t)' =>
                /\ TNext(t).requests = <<>>
                /\ TNext(t).outcome = "none"
                /\ TNext(t).pc \in {"ha_fallback", "done"}
                /\ TNext(t).sent = <<TextMessage(CHECKING), TextMessage(FALLBACK)>>
          /\ (OnFallbackPath(t) /\ Finishes(t)) =>
                /\ Phase(t[1])' = "Idle"
                /\ Pending(t[1])' = None ]_vars

\* a run accepted while AwaitingRecipe found no dish, sent the fallback and ended
C6_Witness ==
    \E t \in AnswerTasks :
        /\ OnFallbackPath(t)
        /\ T(t).pc = "done"
        /\ T(t).cleared
        /\ T(t).sent = <<TextMessage(CHECKING), TextMessage(FALLBACK)>>

----------------------------------------------------------------------------
(* C7 *)

\* C7 as stated: when two free texts of one user were both accepted as answers, no
\* other update of that user followed the first, and both runs have ended, the user's
\* phase is Idle with no pending dish.
C7_TwoAnswersEndIdle ==
    \A u \in Users : \A i, j \in 1..Len(tasks[u]) :
        ( /\ j = i + 1
          /\ j = Len(tasks[u])
          /\ tasks[u][i].handler = "handle_answer"
          /\ tasks[u][j].handler = "handle_answer"
          /\ Finished(<<u, i>>) /\ Finished(<<u, j>>) )
        => Phase(u) = "Idle" /\ Pending(u) = None

----------------------------------------------------------------------------
(* C8 *)

\* evaluate_answer_with_model has been entered by task t
Invoked(t) ==
    /\ T(t).handler = "handle_answer"
    /\ \/ T(t).pc \in {"ev_create", "ha_result", "raised"}
       \/ T(t).pc = "done" /\ T(t).dish /= 0

\* C8: a run that has entered evaluate_answer_with_model has issued exactly one backend
\* request, on success and on failure; every other update has issued none.
C8_OneRequest ==
    \A t \in TaskIds :
        Len(T(t).requests) = IF Invoked(t) THEN 1 ELSE 0

\* a failed call was not tried again
C8_Witness ==
    \E t \in AnswerTasks :
        /\ T(t).outcome = "raise"
        /\ T(t).pc = "done"
        /\ Len(T(t).requests) = 1

----------------------------------------------------------------------------
(* C9 *)

\* C9: once handle_answer has an evaluation for a resolved dish, it has sent exactly
\* one message after the acknowledgement: a photo with the evaluation as caption when
\* the dish has an image reference, else a text with the evaluation as body, both with
\* the keyboard; before that it has sent only the acknowledgement.
C9_OneResultMessage ==
    \A t \in AnswerTasks : T(t).dish /= 0 =>
        IF T(t).pc \in {"ha_result", "done"}
        THEN /\ Len(T(t).sent) = 2
             /\ LET m == T(t).sent[2]
                    image == DictGet(RECIPES[T(t).dish], "image_url", None)
                IN  /\ m.text = T(t).evaluation
                    /\ m.reply_markup = MAIN_KEYBOARD
                    /\ IF image /= None /\ image /= ""
                       THEN m.method = "answer_photo" /\ m.photo = image
                       ELSE m.method = "answer" /\ m.photo = None
        ELSE T(t).sent = <<TextMessage(CHECKING)>>

\* an evaluation text went out as the caption of the dish's photo
C9_Witness ==
    \E t \in AnswerTasks :
        /\ T(t).pc = "done"
        /\ T(t).outcome = "ok"
        /\ T(t).evaluation = <<"Close match. 8/10">>
        /\ T(t).sent[2].method = "answer_photo"
        /\ T(t).sent[2].text = T(t).evaluation

----------------------------------------------------------------------------
(* C10 *)

\* one step of task t
TaskStep(t) ==
    \/ StartReturns(t) \/ TryNextReturns(t)
    \/ AnswerFallback(t) \/ AnswerFallbackClear(t) \/ AnswerEvaluate(t)
    \/ BackendRaises(t) \/ (\E r \in Responses : BackendResponds(t, r))
    \/ AnswerClear(t)

\* an update of user u with this text is taken
Take(u, text) ==
    \/ Unhandled(u, text) \/ StartHandler(u, text)
    \/ HandleTryNext(u, text) \/ HandleAnswer(u, text)

\* C10: while a backend call of one user is outstanding, every other user's work can
\* go on: a press and a free text of another user can be taken (as long as the model
\* has updates left), and every unfinished task of another user can take its next step.
C10_CallDoesNotBlock ==
    \A t \in TaskIds : T(t).pc = "ev_create" =>
        \A u \in Users \ {t[1]} :
            /\ NumEvents < MaxEvents =>
                  /\ ENABLED HandleTryNext(u, TRY_NEXT_BUTTON_TEXT)
                  /\ ENABLED Take(u, "beets and potato")
            /\ \A t2 \in TaskIds :
                  (t2[1] = u /\ ~Finished(t2)) => ENABLED TaskStep(t2)

\* another user's press arrived while the first user's call was outstanding and was
\* handled to the end, changing that user's session and sending the prompt, and the
\* first user's call is still outstanding
C10_Witness ==
    \E t, t2 \in TaskIds :
        /\ T(t).pc = "ev_create"
        /\ t2[1] /= t[1]
        /\ T(t2).during_call
        /\ T(t2).handler = "handle_try_next"
        /\ T(t2).pc = "done"
        /\ Len(T(t2).sent) = 1
        /\ Phase(t2[1]) = "AwaitingRecipe"

----------------------------------------------------------------------------
(* C11 *)

\* what the process found lets startup succeed: recipes.json holds a non-empty list
\* and both credentials are set
StartupCanSucceed ==
    /\ env.recipes_json.kind = "list"
    /\ env.recipes_json.items /= <<>>
    /\ env.TELEGRAM_BOT_TOKEN \notin {None, ""}
    /\ env.OPENAI_API_KEY \notin {None, ""}

\* C11: an update is handled only while polling, and polling begins only when the
\* catalog source is a non-empty list and both credentials are present; otherwise
\* startup raises (the process has failed or is still starting) and no update is ever
\* taken.
C11_NoEventWithoutStartup ==
    /\ NumEvents > 0 => proc = "polling"
    /\ proc = "polling" => StartupCanSucceed /\ RECIPES = env.recipes_json.items
    /\ ~StartupCanSucceed => proc \in {"import", "imported", "failed"} /\ NumEvents = 0

\* startup raised in main() because the backend credential is absent, after the
\* catalog had loaded, and nothing was handled
C11_Witness ==
    /\ proc = "failed"
    /\ RECIPES /= <<>>
    /\ env.TELEGRAM_BOT_TOKEN = "secret"
    /\ env.OPENAI_API_KEY = None
    /\ NumEvents = 0

----------------------------------------------------------------------------
(* C12 *)

StartTasks == {t \in TaskIds : T(t).handler = "start_handler"}

\* C12: the start command is routed to start_handler in every phase; the run sends
\* exactly one message, the greeting with the keyboard, issues no backend request, and
\* no step of it changes the session of any user.
C12_StartLeavesSession ==
    [][ /\ \A u \in Users :
              (Arrives(u) /\ Arrived(u).text = START_COMMAND) =>
                  /\ Arrived(u).handler = "start_handler"
                  /\ Arrived(u).sent = <<TextMessage(GREETING)>>
                  /\ Arrived(u).requests = <<>>
                  /\ UNCHANGED <<fsmState, fsmData>>
        /\ \A t \in StartTasks :
              /\ TNext(t).sent = <<TextMessage(GREETING)>>
              /\ TNext(t).requests = <<>>
              /\ TNext(t) /= T(t) => UNCHANGED <<fsmState, fsmData>> ]_vars

\* a start command taken while a dish was pending has been answered and the round is
\* still open with the same dish
C12_Witness ==
    \E t \in StartTasks :
        /\ T(t).raw_state = waiting_for_answer
        /\ Truthy(T(t).raw_dish)
        /\ T(t).pc = "done"
        /\ T(t).sent = <<TextMessage(GREETING)>>
        /\ Phase(t[1]) = "AwaitingRecipe"
        /\ Pending(t[1]) = T(t).raw_dish

----------------------------------------------------------------------------
(* C13 *)

\* a content that is absent, empty or only whitespace
Blank(c) == c = NoneText \/ \A i \in 1..Len(c) : c[i] \in Whitespace

\* C13: when the backend call returns a response whose content is absent, empty or
\* only whitespace, the evaluation is the empty text and not the apology, handle_answer
\* sends that empty text as the result (caption of the photo when the dish has an
\* image, else body of the text message), and the step after the send clears the
\* session: the phase is Idle with no pending dish.
C13_BlankContentPassesThrough ==
    [][ \A t \in TaskSlots :
          /\ \A c \in Contents :
                (Blank(c) /\ BackendResponds(t, [kind |-> "response",
                                                 choices |-> <<[content |-> c]>>])) =>
                    /\ TNext(t).outcome = "ok"
                    /\ TNext(t).evaluation = <<>>
                    /\ TNext(t).evaluation /= APOLOGY
                    /\ TNext(t).pc = "ha_result"
                    /\ Len(TNext(t).sent) = 2
                    /\ TNext(t).sent[2].text = <<>>
                    /\ TNext(t).sent[2].reply_markup = MAIN_KEYBOARD
          /\ ( /\ Exists(t)
               /\ T(t).pc = "ha_result"
               /\ T(t).outcome = "ok"
               /\ T(t).evaluation = <<>>
               /\ TNext(t) /= T(t) ) =>
                    /\ TNext(t).pc = "done"
                    /\ Phase(t[1])' = "Idle"
                    /\ Pending(t[1])' = None ]_vars

\* a run whose backend content was blank sent an empty text message and cleared
C13_Witness ==
    \E t \in AnswerTasks :
        /\ T(t).outcome = "ok"
        /\ T(t).evaluation = <<>>
        /\ T(t).pc = "done"
        /\ T(t).cleared
        /\ T(t).sent[2].method = "answer"
        /\ T(t).sent[2].text = <<>>
        /\ Phase(t[1]) = "Idle"

----------------------------------------------------------------------------
(* C14 *)

\* catalog record i is the first, in catalog order, whose name is `name`
FirstNamed(i, name) ==
    /\ i \in 1..Len(RECIPES)
    /\ DishName(i) = name
    /\ \A j \in 1..(i - 1) : DishName(j) /= name

\* C14: a handle_answer run that has read a pending dish name which resolves has
\* issued a request built from the first catalog record with that name: the request
\* carries that record's name, that record's recipe (the placeholder when the recipe
\* is missing or empty) and the text of the user's message as it came.
C14_RequestFromFirstMatch ==
    \A t \in AnswerTasks :
        \A i \in 1..Len(RECIPES) :
            ( /\ T(t).pc /= "ha_checking"
              /\ Truthy(T(t).dish_name)
              /\ FirstNamed(i, T(t).dish_name) ) =>
                /\ Len(T(t).requests) = 1
                /\ LET r == T(t).requests[1]
                       recipe == DictGet(RECIPES[i], "recipe", None)
                   IN  /\ r.dish_name = RECIPES[i].name
                       /\ r.dish_name = T(t).dish_name
                       /\ r.official_recipe =
                              IF recipe = None \/ recipe = "" THEN NO_RECIPE ELSE recipe
                       /\ r.user_recipe = T(t).text

\* in a catalog with two records of one name the request carries the recipe of the
\* first, and the user's text
C14_Witness ==
    \E t \in AnswerTasks :
        /\ Len(T(t).requests) = 1
        /\ \E i, j \in 1..Len(RECIPES) :
              /\ i < j
              /\ DishName(i) = T(t).dish_name
              /\ DishName(j) = T(t).dish_name
              /\ RECIPES[i].recipe /= RECIPES[j].recipe
              /\ T(t).requests[1].official_recipe = RECIPES[i].recipe
        /\ T(t).requests[1].user_recipe = "beets and potato"

----------------------------------------------------------------------------
(* C15 *)

\* press t has been handled, no later press of its user has arrived, and no free text
\* of its user has been accepted after it
StillCurrent(t) ==
    /\ T(t).handler = "handle_try_next"
    /\ T(t).pc = "done"
    /\ \A i \in (t[2] + 1)..Len(tasks[t[1]]) :
          tasks[t[1]][i].handler \notin {"handle_try_next", "handle_answer"}

\* C15 as stated: once a press has been handled, and as long as no later press and no
\* later free text of the same user arrives, every step leaves the user's phase
\* AwaitingRecipe with that press's dish pending; in particular the final clear of a
\* handle_answer run that was in flight when the press arrived does not erase it.
C15_PressNotLost ==
    [][ \A t \in TaskIds :
          (StillCurrent(t) /\ StillCurrent(t)') =>
              /\ Phase(t[1])' = "AwaitingRecipe"
              /\ Pending(t[1])' = DishName(T(t).dish) ]_vars

----------------------------------------------------------------------------
(* C16 *)

\* C16 as stated: a handle_answer run dispatched while dish D was pending, D a name
\* of the catalog, reads D once its acknowledgement is sent and issues one request
\* for D: it never takes the fallback path and never grades another dish.
C16_GradedAgainstAccepted ==
    \A t \in AnswerTasks :
        ( /\ Truthy(T(t).raw_dish)
          /\ FindByName(T(t).raw_dish) /= 0
          /\ T(t).pc /= "ha_checking" ) =>
            /\ T(t).dish_name = T(t).raw_dish
            /\ T(t).dish = FindByName(T(t).raw_dish)
            /\ Len(T(t).requests) = 1
            /\ T(t).requests[1].dish_name = T(t).raw_dish

----------------------------------------------------------------------------
(* C17 *)

\* The event loop resumes every task whose awaited I/O has completed; with the
\* backend eventually returning or failing and every send completing, each task
\* that can take a step eventually takes one.  Arrival of updates is not forced.
FairSpec == Spec /\ \A t \in TaskSlots : WF_vars(TaskStep(t))

\* what a handle_answer run has produced so far is in the order of the code: the
\* acknowledgement first, at most one backend request, at most one further message
\* and that one only after the request (if any) has ended, the clear only after that
\* message
AnswerInOrder(t) ==
    /\ Len(T(t).sent) \in {1, 2}
    /\ T(t).sent[1] = TextMessage(CHECKING)
    /\ Len(T(t).requests) <= 1
    /\ Len(T(t).sent) = 2 =>
          /\ T(t).sent[2].text \in {FALLBACK, APOLOGY, T(t).evaluation}
          /\ T(t).sent[2] /= TextMessage(CHECKING)
          /\ T(t).requests /= <<>> => T(t).outcome \in {"raise", "ok"}
    /\ T(t).cleared => Len(T(t).sent) = 2 /\ T(t).pc = "done"

\* C17 as stated: every handle_answer run produces, in order, one acknowledgement, at
\* most one backend request, one final message and then the clear; and when the
\* backend returns or fails and sends complete, the final message is eventually sent.
C17_AnswerSequence ==
    /\ [](\A t \in AnswerTasks : AnswerInOrder(t))
    /\ \A t \in TaskSlots :
          (Exists(t) /\ T(t).handler = "handle_answer")
              ~> (Exists(t) /\ Len(T(t).sent) = 2)

----------------------------------------------------------------------------
(* C18 *)

\* the step is taken for user u: an update of u arrives or a task of u moves
StepOf(u) == tasks'[u] /= tasks[u]

\* C18: a step taken for one user (the arrival of a start command, a press or a free
\* text, or a later step of their handlers, the backend failure and the fallback path
\* included) leaves the FSM state and the data of every other user as they were, and
\* once loaded the catalog never changes.
C18_OtherUsersUntouched ==
    [][ /\ \A u \in Users : StepOf(u) =>
              \A v \in Users \ {u} :
                  /\ fsmState'[v] = fsmState[v]
                  /\ fsmData'[v] = fsmData[v]
                  /\ Phase(v)' = Phase(v)
                  /\ Pending(v)' = Pending(v)
        /\ proc = "polling" => RECIPES' = RECIPES ]_vars

\* one user's round was graded and cleared while another user's dish stayed pending
C18_Witness ==
    \E t \in AnswerTasks : \E v \in Users \ {t[1]} :
        /\ T(t).pc = "done"
        /\ T(t).cleared
        /\ Phase(t[1]) = "Idle"
        /\ Phase(v) = "AwaitingRecipe"
        /\ Truthy(Pending(v))

----------------------------------------------------------------------------
(* C19 *)

\* C19 as stated: whenever a user's phase is AwaitingRecipe a dish name is pending and
\* it is the name of a record of the loaded catalog, whatever non-empty list was
\* loaded.
C19_PendingInCatalog ==
    \A u \in Users : Phase(u) = "AwaitingRecipe" =>
        /\ Truthy(Pending(u))
        /\ \E i \in 1..Len(RECIPES) : DishName(i) = Pending(u)

====
